---- MODULE Spec2Model ----
(***************************************************************************)
(* Deep Research Agent (jarmanper/ResearchCrew).                           *)
(*                                                                         *)
(* Three components are modelled, each with its own specification:         *)
(*   Spec        app.py     the Streamlit script: backend resolution at    *)
(*                          the top of every script run, the sidebar       *)
(*                          widgets and the launch handler;                *)
(*   CrewSpec    crew.py    the ResearchCrew class used directly:          *)
(*                          __init__ and run() (two tasks, sequential);    *)
(*   StreamSpec  utils.py   StreamToExpander.write.                        *)
(*                                                                         *)
(* Temperatures are integers in hundredths (0.7 is 70).  Text handled by   *)
(* StreamToExpander is a sequence of characters.                           *)
(***************************************************************************)
EXTENDS Integers, Sequences, FiniteSets, TLC

(***************************************************************************)
(* Bounds of the model.                                                    *)
(***************************************************************************)
\* script runs (page load, widget changes, launches) of one process
MaxRuns == 4
\* non-blank writes to one StreamToExpander
MaxWrites == 16
\* captured entries of one StreamToExpander that are not the plain line
MaxSpecial == 2

(***************************************************************************)
(* app.py: environment detection                                           *)
(***************************************************************************)
GroqKey == "GROQ_API_KEY"

\* the names a secret store may hold, and the values they may have
SecretValues == {"gsk_A", "gsk_B"}
OtherKey == "HF_TOKEN"
SecretStores ==
    LET groq == {<<>>} \cup {(GroqKey :> v) : v \in SecretValues}
        other == {<<>>, (OtherKey :> "hf_X")}
    IN  {g @@ o : g \in groq, o \in other}

CloudUrl == "https://api.groq.com/openai/v1"
LocalUrl == "http://localhost:11434/v1"
NoAuth == "NA"

\* list(model_options.keys()): a dict keeps insertion order
CloudKeys == <<"deepseek-r1-distill-llama-70b", "llama-3.3-70b-versatile", "mixtral-8x7b-32768">>
LocalKeys == <<"deepseek-r1:8b", "llama3.2", "mistral">>

CloudCatalog ==
    ("deepseek-r1-distill-llama-70b" :> "Thinking (DeepSeek R1 - Cloud)")
 @@ ("llama-3.3-70b-versatile" :> "Fast (Llama 3.3 - Cloud)")
 @@ ("mixtral-8x7b-32768" :> "Pro (Mixtral - Cloud)")

LocalCatalog ==
    ("deepseek-r1:8b" :> "Thinking (DeepSeek R1 - Local)")
 @@ ("llama3.2" :> "Fast (Llama 3.2 - Local)")
 @@ ("mistral" :> "Pro (Mistral - Local)")

\* a bug that offers the cloud catalog in both branches
ResolveSameCatalog(store) ==
    IF GroqKey \in DOMAIN store
    THEN [env_mode |-> "Cloud", api_key |-> store[GroqKey], base_url |-> CloudUrl,
          model_options |-> CloudCatalog, options |-> CloudKeys]
    ELSE [env_mode |-> "Local", api_key |-> NoAuth, base_url |-> LocalUrl,
          model_options |-> CloudCatalog, options |-> CloudKeys]

\* the if/else at the top of the script
Resolve(store) ==
    IF GroqKey \in DOMAIN store
    THEN [env_mode |-> "Cloud", api_key |-> store[GroqKey], base_url |-> CloudUrl,
          model_options |-> CloudCatalog, options |-> CloudKeys]
    ELSE [env_mode |-> "Local", api_key |-> NoAuth, base_url |-> LocalUrl,
          model_options |-> LocalCatalog, options |-> LocalKeys]

\* a bug that leaves the binding alone
EnvironKept(old, key) == old

\* os.environ["OPENAI_API_KEY"] = api_key
EnvironAssign(old, key) == key

(***************************************************************************)
(* app.py: sidebar widgets                                                 *)
(***************************************************************************)
SliderMin == 0
SliderMax == 100
SliderDefault == 70
\* the positions of the slider a user picks in the model
SliderValues == {SliderMin, SliderDefault, SliderMax}

DefaultTopic == "The Future of AI in 2026"
Topics == {DefaultTopic, "Quantum computing", ""}

\* a bug that returns the session's stored choice whatever the options are
SelectboxStale(options, stored) == stored

\* st.selectbox(options=..., index=0): the session's choice when it is one of
\* the options shown, the first option otherwise
Selectbox(options, stored) ==
    IF \E i \in 1..Len(options) : options[i] = stored THEN stored ELSE options[1]

\* st.slider(0.0, 1.0, 0.7): the session's value, always within the range
Slider(stored) ==
    IF stored < SliderMin THEN SliderMin
    ELSE IF stored > SliderMax THEN SliderMax ELSE stored

(***************************************************************************)
(* crew.py: ResearchCrew                                                   *)
(***************************************************************************)
\* def __init__(self, topic, model_name, temperature=0.7, api_key=None)
InitParams == {"topic", "model_name", "temperature", "api_key"}
InitRequired == {"topic", "model_name"}
DefaultTemperature == 70
NoneValue == "None"

NoExc == [type |-> "none", msg |-> ""]

\* Python binds a keyword call when every keyword is a parameter and every
\* parameter without a default is given; otherwise the call raises TypeError
Binds(kwargs) ==
    /\ DOMAIN kwargs \subseteq InitParams
    /\ InitRequired \subseteq DOMAIN kwargs

\* the TypeError of a call that does not bind: a keyword that is no
\* parameter is rejected first, a missing required argument after that
BindError(kwargs) ==
    IF ~(DOMAIN kwargs \subseteq InitParams)
    THEN [type |-> "TypeError", msg |-> "unexpected keyword argument"]
    ELSE [type |-> "TypeError", msg |-> "missing required argument"]

\* the body of __init__: the topic and the LLM are stored as given (the
\* source checks none of them); the object, or None, is a sequence of 0 or 1
ResearchCrewInit(kwargs) ==
    IF ~Binds(kwargs)
    THEN [raised |-> TRUE, exc |-> BindError(kwargs), obj |-> <<>>]
    ELSE [raised |-> FALSE, exc |-> NoExc,
          obj |-> <<[topic |-> kwargs.topic,
                     llm |-> [model |-> kwargs.model_name,
                              api_key |-> IF "api_key" \in DOMAIN kwargs
                                          THEN kwargs.api_key ELSE NoneValue,
                              temperature |-> IF "temperature" \in DOMAIN kwargs
                                              THEN kwargs.temperature
                                              ELSE DefaultTemperature]]>>]

\* the two agents of run(); only the researcher's goal embeds the topic
Researcher(crew) ==
    [role |-> "Senior Research Analyst",
     goal |-> <<"Produce an extremely detailed and comprehensive research brief on", crew.topic>>,
     llm |-> crew.llm]

Writer(crew) ==
    [role |-> "Tech Content Strategist",
     goal |-> <<"Transform research into a comprehensive, well-organized article", "">>,
     llm |-> crew.llm]

\* the two tasks of run(); both descriptions embed the topic
ResearchTask(crew) ==
    [name |-> "research",
     description |-> <<"Conduct an in-depth analysis of", crew.topic>>,
     expected_output |-> "A comprehensive research brief with 7+ distinct sections",
     agent |-> Researcher(crew)]

WritingTask(crew) ==
    [name |-> "writing",
     description |-> <<"Using the research provided, create a comprehensive article about", crew.topic>>,
     expected_output |-> "A polished, publication-ready article in Markdown format",
     agent |-> Writer(crew)]

\* Crew(tasks=[research_task, writing_task], process=Process.sequential)
CrewTasks(crew) == <<ResearchTask(crew), WritingTask(crew)>>

\* what one generation call may do: return a text, or fail
Texts == {"FACT: X", "ARTICLE ABOUT FACT: X"}
Failures == {"rate limited"}
Outcomes == [ok : {TRUE}, text : Texts] \cup [ok : {FALSE}, text : Failures]
\* the outcome of the first and of the second generation call of a run
Plans == [1..2 -> Outcomes]

NoContext == ""

\* a bug that hands no task any context
UpstreamContextNone(i, outputs) == NoContext

\* sequential process: a task that is not the first gets the output of the
\* task before it as context
UpstreamContext(i, outputs) == IF i = 1 THEN NoContext ELSE outputs[i - 1]

BuildPrompt(task, context) ==
    [role |-> task.agent.role, goal |-> task.agent.goal,
     description |-> task.description, expected_output |-> task.expected_output,
     context |-> context]

NoPrompt ==
    [role |-> "", goal |-> <<"", "">>, description |-> <<"", "">>,
     expected_output |-> "", context |-> NoContext]

\* the exception a failed generation call raises; run() has no try/except
\* and kickoff() lets it through, so it is also what leaves run()
Raised(o) == [type |-> "GenerationError", msg |-> o.text]

\* crew.kickoff() returns the output of the last task
KickoffResult(outputs) == outputs[Len(outputs)]

\* crew.kickoff() under Process.sequential from task i on: each task builds
\* its prompt, makes one generation call and records the text; a failed call
\* ends the run.  events lists the calls, returns and failures in the order
\* they happen.
RECURSIVE Execute(_, _, _, _, _)
Execute(tasks, plan, i, outputs, events) ==
    IF i > Len(tasks)
    THEN [raised |-> FALSE, exc |-> NoExc, value |-> KickoffResult(outputs),
          outputs |-> outputs, events |-> events]
    ELSE LET prompt == BuildPrompt(tasks[i], UpstreamContext(i, outputs))
             call == [kind |-> "call", task |-> tasks[i].name, prompt |-> prompt,
                      model |-> tasks[i].agent.llm.model, text |-> ""]
             o == plan[i]
         IN  IF o.ok
             THEN Execute(tasks, plan, i + 1, Append(outputs, o.text),
                          events \o <<call, [kind |-> "return", task |-> tasks[i].name,
                                             prompt |-> NoPrompt, model |-> "",
                                             text |-> o.text]>>)
             ELSE [raised |-> TRUE, exc |-> Raised(o), value |-> "",
                   outputs |-> outputs,
                   events |-> events \o <<call, [kind |-> "fail", task |-> tasks[i].name,
                                                 prompt |-> NoPrompt, model |-> "",
                                                 text |-> o.text]>>]

\* ResearchCrew.run(): build agents, tasks and crew, return crew.kickoff()
Run(crew, plan) == Execute(CrewTasks(crew), plan, 1, <<>>, <<>>)

(***************************************************************************)
(* State                                                                   *)
(***************************************************************************)
VARIABLES
    secrets,        \* st.secrets: the secret store, as it is now
    environ,        \* os.environ["OPENAI_API_KEY"]
    env_mode,       \* app.py globals set by the environment detection
    api_key,
    base_url,
    model_options,
    resolved_from,  \* the store as the latest environment detection read it
    resolutions,    \* how many times the environment detection has run
    selected_model, \* app.py: the three sidebar inputs
    temperature,
    topic,
    status,         \* the st.status box: "none", "running", "complete", "error"
    report,         \* the report shown by st.markdown(result), if any
    download,       \* whether the download button is shown
    error_shown,    \* the message shown by st.error, if any
    last_call,      \* the keyword arguments of the latest ResearchCrew(...) call
    llm,            \* what the backend answers to the generation calls of a run
    crew,           \* the ResearchCrew object, if constructed
    result,         \* what run() returned
    exc,            \* the exception raised by the constructor or by run()
    events,         \* the generation calls, returns and failures of a run
    pc,             \* where the script, or the caller of ResearchCrew, is; for
                    \* StreamToExpander, what the latest call did
    buffer,         \* StreamToExpander.buffer
    container       \* the text last given to container.code, if any

appVars == <<secrets, environ, env_mode, api_key, base_url, model_options,
             resolved_from, resolutions, selected_model, temperature, topic,
             status, report, download, error_shown, last_call>>
crewVars == <<llm, crew, result, exc, events>>
streamVars == <<buffer, container>>
vars == <<appVars, crewVars, pc, streamVars>>

NoPlan == [i \in 1..2 |-> [ok |-> FALSE, text |-> ""]]

(***************************************************************************)
(* app.py: one script run.  Streamlit runs the script from the top on the  *)
(* first page load and again on every widget change and button click; the  *)
(* page is drawn anew by each run.                                         *)
(***************************************************************************)
\* lines 30-118: environment detection, the binding, the sidebar inputs
ScriptTop(model_choice, slider_value, topic_text) ==
    LET r == Resolve(secrets)
    IN  /\ env_mode' = r.env_mode
        /\ api_key' = r.api_key
        /\ base_url' = r.base_url
        /\ model_options' = r.model_options
        /\ resolved_from' = secrets
        /\ resolutions' = resolutions + 1
        /\ environ' = EnvironAssign(environ, r.api_key)
        /\ selected_model' = Selectbox(r.options, model_choice)
        /\ temperature' = Slider(slider_value)
        /\ topic' = topic_text
        /\ report' = <<>>
        /\ download' = FALSE
        /\ error_shown' = <<>>
        /\ last_call' = <<>>
        /\ crew' = <<>>
        /\ result' = ""
        /\ exc' = NoExc
        /\ events' = <<>>
        /\ UNCHANGED <<secrets, streamVars>>

\* a script run in which the launch button was not clicked
Rerun(model_choice, slider_value, topic_text) ==
    /\ pc = "idle"
    /\ resolutions < MaxRuns
    /\ ScriptTop(model_choice, slider_value, topic_text)
    /\ status' = "none"
    /\ llm' = NoPlan
    /\ pc' = "idle"

\* the user picks another model among the options shown
SelectModel(m) ==
    /\ m \in DOMAIN model_options
    /\ m # selected_model
    /\ Rerun(m, temperature, topic)

\* the user moves the slider
SetTemperature(t) ==
    /\ t # temperature
    /\ Rerun(selected_model, t, topic)

\* the user edits the topic
SetTopic(tp) ==
    /\ tp # topic
    /\ Rerun(selected_model, temperature, tp)

\* the page is loaded again: a new session, every widget at its default
PageReload == Rerun("", SliderDefault, DefaultTopic)

\* the user clicks "Launch Research Crew": the script runs with run_btn set
\* and enters the st.status block (line 123)
ClickLaunch ==
    /\ pc = "idle"
    /\ resolutions < MaxRuns
    /\ ScriptTop(selected_model, temperature, topic)
    /\ status' = "running"
    /\ llm' \in Plans
    /\ pc' = "try"

\* the keyword arguments of the call at lines 128-134
LaunchKwargs ==
    [topic |-> topic, model_name |-> selected_model, temperature |-> temperature,
     base_url |-> base_url, api_key |-> api_key]

\* lines 124-154: the try block
TryBlock ==
    /\ pc = "try"
    /\ last_call' = <<LaunchKwargs>>
    /\ LET made == ResearchCrewInit(LaunchKwargs)
           ran == Run(made.obj[1], llm)
       IN  /\ crew' = made.obj
           /\ IF made.raised
              THEN /\ exc' = made.exc
                   /\ pc' = "except"
                   /\ UNCHANGED <<result, events, status, report, download>>
              ELSE /\ events' = ran.events
                   /\ IF ran.raised
                      THEN /\ exc' = ran.exc
                           /\ pc' = "except"
                           /\ UNCHANGED <<result, status, report, download>>
                      ELSE /\ result' = ran.value
                           /\ status' = "complete"
                           /\ report' = <<ran.value>>
                           /\ download' = TRUE
                           /\ pc' = "idle"
                           /\ UNCHANGED exc
    /\ UNCHANGED <<secrets, environ, env_mode, api_key, base_url, model_options,
                   resolved_from, resolutions, selected_model, temperature, topic,
                   error_shown, llm, streamVars>>

\* a handler that shows the message and leaves the status box as it is
ExceptStatusKept(e) == [status |-> status, error_shown |-> <<e.msg>>]

\* lines 156-158: except Exception as e
ExceptOutcome(e) == [status |-> "error", error_shown |-> <<e.msg>>]

ExceptBlock ==
    /\ pc = "except"
    /\ status' = ExceptOutcome(exc).status
    /\ error_shown' = ExceptOutcome(exc).error_shown
    /\ pc' = "idle"
    /\ UNCHANGED <<secrets, environ, env_mode, api_key, base_url, model_options,
                   resolved_from, resolutions, selected_model, temperature, topic,
                   report, download, last_call, crewVars, streamVars>>

\* the secret store is edited from outside the script
SecretsChange(s) ==
    /\ s # secrets
    /\ secrets' = s
    /\ UNCHANGED <<environ, env_mode, api_key, base_url, model_options,
                   resolved_from, resolutions, selected_model, temperature, topic,
                   status, report, download, error_shown, last_call,
                   crewVars, pc, streamVars>>

\* the state once the first script run (the page load) has ended
AppStart(s) ==
    LET r == Resolve(s)
    IN  /\ secrets = s
        /\ env_mode = r.env_mode
        /\ api_key = r.api_key
        /\ base_url = r.base_url
        /\ model_options = r.model_options
        /\ resolved_from = s
        /\ resolutions = 1
        /\ environ = EnvironAssign(NoneValue, r.api_key)
        /\ selected_model = Selectbox(r.options, "")
        /\ temperature = Slider(SliderDefault)
        /\ topic = DefaultTopic
        /\ status = "none"
        /\ report = <<>>
        /\ download = FALSE
        /\ error_shown = <<>>
        /\ last_call = <<>>

CrewIdle ==
    /\ llm = NoPlan
    /\ crew = <<>>
    /\ result = ""
    /\ exc = NoExc
    /\ events = <<>>

StreamIdle ==
    /\ buffer = <<>>
    /\ container = <<>>

Init ==
    /\ \E s \in SecretStores : AppStart(s)
    /\ CrewIdle
    /\ pc = "idle"
    /\ StreamIdle

Next ==
    \/ \E m \in DOMAIN CloudCatalog \cup DOMAIN LocalCatalog : SelectModel(m)
    \/ \E t \in SliderValues : SetTemperature(t)
    \/ \E tp \in Topics : SetTopic(tp)
    \/ PageReload
    \/ ClickLaunch
    \/ TryBlock
    \/ ExceptBlock
    \/ \E s \in SecretStores : SecretsChange(s)

Spec == Init /\ [][Next]_vars

(***************************************************************************)
(* crew.py used directly: a caller constructs a ResearchCrew and calls     *)
(* run() on it.                                                            *)
(***************************************************************************)
\* what a caller may pass: valid and invalid topics, model names and
\* temperatures, with and without the optional arguments
CallerModels == {"llama3.2", "mixtral-8x7b-32768", "not-a-model"}
CallerTemperatures == {0, 70, 100, 150}
CallerKeys == {NoAuth, "gsk_A"}
CallerKwargs ==
    [topic : Topics, model_name : CallerModels,
     temperature : CallerTemperatures, api_key : CallerKeys]
    \cup [topic : Topics, model_name : CallerModels]
    \cup [topic : Topics, temperature : CallerTemperatures]
    \cup [topic : {DefaultTopic}, model_name : CallerModels, temperature : {70},
          base_url : {LocalUrl, CloudUrl}, api_key : CallerKeys]
    \cup [topic : {DefaultTopic}, base_url : {LocalUrl}]
    \cup [base_url : {LocalUrl}]

\* crew = ResearchCrew(**kwargs)
Construct(kwargs) ==
    /\ pc \in {"new", "constructed", "init_failed", "returned", "raised"}
    /\ LET made == ResearchCrewInit(kwargs)
       IN  /\ crew' = made.obj
           /\ exc' = made.exc
           /\ pc' = IF made.raised THEN "init_failed" ELSE "constructed"
    /\ last_call' = <<kwargs>>
    /\ result' = ""
    /\ events' = <<>>
    /\ llm' = NoPlan
    /\ UNCHANGED <<secrets, environ, env_mode, api_key, base_url, model_options,
                   resolved_from, resolutions, selected_model, temperature, topic,
                   status, report, download, error_shown, streamVars>>

\* crew.run(), with the backend answering as in plan
CallRun(plan) ==
    /\ pc \in {"constructed", "returned", "raised"}
    /\ LET ran == Run(crew[1], plan)
       IN  /\ events' = ran.events
           /\ result' = ran.value
           /\ exc' = ran.exc
           /\ pc' = IF ran.raised THEN "raised" ELSE "returned"
    /\ llm' = plan
    /\ UNCHANGED <<appVars, crew, streamVars>>

CrewInit ==
    /\ AppStart(<<>>)
    /\ CrewIdle
    /\ pc = "new"
    /\ StreamIdle

CrewNext ==
    \/ \E kwargs \in CallerKwargs : Construct(kwargs)
    \/ \E plan \in Plans : CallRun(plan)

CrewSpec == CrewInit /\ [][CrewNext]_vars

(***************************************************************************)
(* utils.py: StreamToExpander.  Text is a sequence of characters; "ESC" is *)
(* \x1B, "SP" a space and "NL" a newline.                                  *)
(***************************************************************************)
Window == 15

\* str.strip() removes these
Whitespace == {"SP", "NL"}
\* the character classes of the regular expression
\*   \x1B(?:[@-Z\\-_]|\[[0-?]*[ -/]*[@-~])
TwoCharFinal == {"A"}                \* [@-Z\\-_]
ParamBytes == {"0", ";"}             \* [0-?]
InterBytes == {"SP"}                 \* [ -/]
FinalBytes == {"m", "x", "A", "["}   \* [@-~]

\* data.strip(): true when some character is not whitespace
StripTruthy(data) == \E i \in 1..Len(data) : data[i] \notin Whitespace

\* the first position at or after j whose character is not in class
RECURSIVE SkipWhile(_, _, _)
SkipWhile(s, j, class) ==
    IF j <= Len(s) /\ s[j] \in class THEN SkipWhile(s, j + 1, class) ELSE j

\* the length of the escape sequence the expression matches at position i of
\* s, 0 when it matches none.  The three classes of the second alternative
\* are disjoint, so the greedy match is the only one.
MatchLen(s, i) ==
    IF s[i] # "ESC" \/ i + 1 > Len(s) THEN 0
    ELSE IF s[i + 1] \in TwoCharFinal THEN 2
    ELSE IF s[i + 1] # "[" THEN 0
    ELSE LET j == SkipWhile(s, SkipWhile(s, i + 2, ParamBytes), InterBytes)
         IN  IF j <= Len(s) /\ s[j] \in FinalBytes THEN j - i + 1 ELSE 0

\* self.ansi_escape.sub('', data), from position i on
RECURSIVE AnsiSubFrom(_, _)
AnsiSubFrom(s, i) ==
    IF i > Len(s) THEN <<>>
    ELSE IF MatchLen(s, i) > 0 THEN AnsiSubFrom(s, i + MatchLen(s, i))
    ELSE <<s[i]>> \o AnsiSubFrom(s, i + 1)

AnsiSub(data) == AnsiSubFrom(data, 1)

\* buf[-n:]
Last(buf, n) == IF Len(buf) <= n THEN buf ELSE SubSeq(buf, Len(buf) - n + 1, Len(buf))

\* "\n".join(entries)
RECURSIVE Join(_)
Join(entries) ==
    IF entries = <<>> THEN <<>>
    ELSE IF Len(entries) = 1 THEN entries[1]
    ELSE entries[1] \o <<"NL">> \o Join(Tail(entries))

\* the lines a text shows as in a code block
NumLines(text) == 1 + Cardinality({i \in 1..Len(text) : text[i] = "NL"})

PlainLine == <<"x">>
\* what is written to the stream: nothing, whitespace (the "\n" that print()
\* writes after each line), a plain line, a coloured line, a reset code alone,
\* a text of two lines
DataSet ==
    { <<>>,
      <<"NL">>,
      <<"SP", "NL">>,
      PlainLine,
      <<"ESC", "[", "0", ";", "0", "m", "x", "ESC", "[", "0", "m">>,
      <<"ESC", "[", "0", "m">>,
      <<"x", "NL", "x">> }

Special(buf) == Cardinality({i \in 1..Len(buf) : buf[i] # PlainLine})

\* StreamToExpander.write(data)
Write(data) ==
    /\ IF StripTruthy(data)
       THEN /\ Len(buffer) < MaxWrites
            /\ buffer' = Append(buffer, AnsiSub(data))
            /\ Special(buffer') <= MaxSpecial
            /\ container' = <<Join(Last(buffer', Window))>>
       ELSE UNCHANGED <<buffer, container>>
    /\ pc' = IF StripTruthy(data) THEN "shown" ELSE "skipped"
    /\ UNCHANGED <<appVars, crewVars>>

\* StreamToExpander.flush()
Flush ==
    /\ pc' = "flushed"
    /\ UNCHANGED <<appVars, crewVars, streamVars>>

StreamInit ==
    /\ AppStart(<<>>)
    /\ CrewIdle
    /\ pc = "new"
    /\ StreamIdle

StreamNext ==
    \/ \E data \in DataSet : Write(data)
    \/ Flush

StreamSpec == StreamInit /\ [][StreamNext]_vars

(***************************************************************************)
(* Properties                                                              *)
(***************************************************************************)
Launched == last_call # <<>>
AllCatalogModels == DOMAIN CloudCatalog \cup DOMAIN LocalCatalog
IsCall(e) == e.kind = "call"
Calls == {i \in 1..Len(events) : IsCall(events[i])}

\* C1 (Spec): a launch from the app with a non-empty topic, a model of the
\* active catalog and a temperature in [0.0, 1.0], whose two generation calls
\* would both succeed, constructs the pipeline, reaches run() and ends in the
\* "complete" state showing the text the writing task returned.
C1_LaunchCompletes ==
    (pc = "idle" /\ Launched /\ topic # "" /\ llm[1].ok /\ llm[2].ok)
        => /\ crew # <<>>
           /\ status = "complete"
           /\ report = <<llm[2].text>>

\* C2 (Spec): the configuration is decided by the presence of GROQ_API_KEY in
\* the store the detection read and by nothing else: with the key, cloud
\* mode, the cloud URL, the cloud catalog and the secret as credential;
\* without it, local mode, the local address, the local catalog and "NA".
C2_BackendResolution ==
    /\ GroqKey \in DOMAIN resolved_from
         => /\ env_mode = "Cloud"
            /\ base_url = "https://api.groq.com/openai/v1"
            /\ DOMAIN model_options
                 = {"deepseek-r1-distill-llama-70b", "llama-3.3-70b-versatile",
                    "mixtral-8x7b-32768"}
            /\ model_options = CloudCatalog
            /\ api_key = resolved_from[GroqKey]
    /\ GroqKey \notin DOMAIN resolved_from
         => /\ env_mode = "Local"
            /\ base_url = "http://localhost:11434/v1"
            /\ DOMAIN model_options = {"deepseek-r1:8b", "llama3.2", "mistral"}
            /\ model_options = LocalCatalog
            /\ api_key = "NA"

\* a later script run resolved to cloud mode from a store that holds another
\* secret beside the key
C2_Witness ==
    /\ resolutions > 1
    /\ env_mode = "Cloud"
    /\ api_key = "gsk_B"
    /\ OtherKey \in DOMAIN resolved_from

\* C3 (Spec): one mode is active, the model selected is a key of the active
\* catalog, and a launch hands the constructor a model of the active catalog
\* together with that mode's endpoint and credential: never a cloud model
\* with the local endpoint, nor a local model with the cloud endpoint.
C3_ModelMatchesMode ==
    /\ env_mode \in {"Cloud", "Local"}
    /\ selected_model \in DOMAIN model_options
    /\ Launched =>
         LET k == last_call[1]
         IN  \/ /\ env_mode = "Cloud"
                /\ k.model_name \in DOMAIN CloudCatalog
                /\ k.base_url = CloudUrl
                /\ k.api_key = resolved_from[GroqKey]
             \/ /\ env_mode = "Local"
                /\ k.model_name \in DOMAIN LocalCatalog
                /\ k.base_url = LocalUrl
                /\ k.api_key = NoAuth

\* a launch in cloud mode, in the third script run or later, with a model
\* other than the default one
C3_Witness ==
    /\ Launched
    /\ env_mode = "Cloud"
    /\ last_call[1].model_name = "mixtral-8x7b-32768"
    /\ resolutions >= 3

\* C4 (CrewSpec): run() executes the research task first and the writing task
\* second: the first generation call is the research task's and carries no
\* upstream context; the writing task's call comes after the research task's
\* call has returned and carries the text it returned as context; a run that
\* returns returns the writing task's text.
C4_SequentialRun ==
    /\ events # <<>>
         => /\ IsCall(events[1])
            /\ events[1].task = "research"
            /\ events[1].prompt.context = NoContext
            /\ events[1].prompt.description = <<"Conduct an in-depth analysis of", crew[1].topic>>
    /\ \A i \in Calls :
         events[i].task = "writing"
           => /\ i = 3
              /\ events[2].kind = "return"
              /\ events[2].task = "research"
              /\ events[i].prompt.context = events[2].text
              /\ events[i].prompt.context = llm[1].text
    /\ pc = "returned"
         => /\ Len(events) = 4
            /\ events[3].task = "writing"
            /\ events[4].kind = "return"
            /\ events[4].task = "writing"
            /\ result = events[4].text
            /\ result = llm[2].text

\* the scenario of the specification: "FACT: X" from the research task, then
\* "ARTICLE ABOUT FACT: X" from the writing task
C4_Witness ==
    /\ pc = "returned"
    /\ crew[1].topic = DefaultTopic
    /\ llm[1].text = "FACT: X"
    /\ events[3].prompt.context = "FACT: X"
    /\ result = "ARTICLE ABOUT FACT: X"

\* the position of the task whose generation call fails under llm
FailingIndex == IF llm[1].ok THEN 2 ELSE 1

\* C5 (CrewSpec): a failed generation call makes run() raise PipelineAbort
\* naming the position of the failing task.
C5_PipelineAbort ==
    pc = "raised"
        => /\ exc.type = "PipelineAbort"
           /\ "index" \in DOMAIN exc
           /\ exc.index = FailingIndex

\* a configuration as the specification requires it
ValidConfig(k) ==
    /\ "topic" \in DOMAIN k
    /\ k.topic # ""
    /\ "model_name" \in DOMAIN k
    /\ k.model_name \in AllCatalogModels
    /\ "temperature" \in DOMAIN k => k.temperature \in SliderMin..SliderMax

\* C6 (CrewSpec): with an empty topic, a temperature outside [0.0, 1.0] or a
\* missing or unknown model identifier, no generation call is made.
C6_FailFast ==
    (Launched /\ ~ValidConfig(last_call[1])) => events = <<>>

\* C7 (Spec): once resolved, the mode, the endpoint, the credential and the
\* catalog never change.
C7_ResolvedOnce ==
    [][/\ env_mode' = env_mode
       /\ api_key' = api_key
       /\ base_url' = base_url
       /\ model_options' = model_options]_vars

\* C8 (Spec): in cloud mode the binding OPENAI_API_KEY holds the secret the
\* detection found, in local mode it holds "NA" and no secret; it holds that
\* value when the constructor is about to be called and when it has been.
C8_CredentialBinding ==
    /\ env_mode = "Cloud"
         => /\ environ = resolved_from[GroqKey]
            /\ environ \in SecretValues
    /\ env_mode = "Local"
         => /\ environ = NoAuth
            /\ environ \notin SecretValues
    /\ pc = "try" => environ = LaunchKwargs.api_key
    /\ Launched => environ = last_call[1].api_key

\* the script, not in its first run, is about to construct the pipeline in
\* cloud mode
C8_Witness ==
    /\ pc = "try"
    /\ env_mode = "Cloud"
    /\ environ = "gsk_B"
    /\ resolutions > 1

\* C9 (StreamSpec): the buffer holds at most 15 entries and the text shown
\* has at most 15 lines.
C9_BoundedWindow ==
    /\ Len(buffer) <= Window
    /\ container # <<>> => NumLines(container[1]) <= Window

\* C10 (Spec): a launch ends in "complete" or in "error" and never stays
\* "running"; "complete" shows the report, which is what run() returned
\* after its last task returned, and the download button, and no error;
\* "error" shows the message of the exception and neither report nor button.
C10_NoPartialSuccess ==
    /\ status \in {"none", "running", "complete", "error"}
    /\ status = "running" => pc \in {"try", "except"}
    /\ (pc = "idle" /\ Launched) => status \in {"complete", "error"}
    /\ pc = "except" => exc # NoExc
    /\ status = "complete"
         => /\ events # <<>>
            /\ events[Len(events)].kind = "return"
            /\ report = <<result>>
            /\ download
            /\ error_shown = <<>>
    /\ status = "error"
         => /\ exc # NoExc
            /\ error_shown = <<exc.msg>>
            /\ report = <<>>
            /\ ~download

\* a launch has ended in the error state with the message shown
C10_Witness ==
    /\ pc = "idle"
    /\ Launched
    /\ status = "error"
    /\ error_shown = <<"unexpected keyword argument">>
    /\ report = <<>>

====
